---------------------------- MODULE Spec2Model ----------------------------
(***************************************************************************)
(* The build command of mdbook-killer (src/src/commands/build.rs):         *)
(* execute scans one source directory per language, accumulates the        *)
(* chapters, writes one page per chapter per language and finally the      *)
(* top-level homepage.                                                     *)
(*                                                                         *)
(* Texts are sequences of one-character strings; file stems, slugs,        *)
(* languages and paths are strings.  Option<T> is a sequence of length 0   *)
(* (None) or 1 (Some).                                                     *)
(***************************************************************************)
EXTENDS Integers, Sequences, FiniteSets, TLC

\* ---------------------------------------------------------------- bounds
\* Longest language list given to execute.
MaxLangs == 2
\* Directory entries enumerated over one build (all directories together).
MaxEntries == 2
\* Page writes (Ssg::gen) that fail over one build.
MaxFaults == 1

\* --------------------------------------------------------------- options
None == << >>
Some(x) == << x >>
IsSome(o) == Len(o) = 1
Unwrap(o) == o[1]

\* Option::unwrap_or
UnwrapOr(o, d) == IF IsSome(o) THEN Unwrap(o) ELSE d

\* Option::or
OptionOr(o, other) == IF IsSome(o) THEN o ELSE other

\* get_or_insert replaced by a plain assignment
GetOrInsertOverwrite(o, v) == Some(v)

\* Option::get_or_insert: the option after the call
GetOrInsert(o, v) == IF IsSome(o) THEN o ELSE Some(v)

\* ----------------------------------------------------------------- texts
\* str::starts_with
StartsWith(text, prefix) ==
    /\ Len(text) >= Len(prefix)
    /\ \A i \in 1..Len(prefix) : text[i] = prefix[i]

FrontMatterMarker == << "-", "-", "-" >>

\* Index of the first line feed of text, or Len(text) + 1 when it has none.
RECURSIVE FirstLf(_, _)
FirstLf(text, i) ==
    IF i > Len(text) THEN i
    ELSE IF text[i] = "\n" THEN i
    ELSE FirstLf(text, i + 1)

\* The title taken as the whole text instead of its first line
FirstLineWhole(text) == IF Len(text) = 0 THEN None ELSE Some(text)

\* str::lines().next(): None for the empty text, otherwise the text up to
\* the first line feed, without a carriage return that precedes it.
FirstLine(text) ==
    IF Len(text) = 0 THEN None
    ELSE LET n == FirstLf(text, 1)
             raw == SubSeq(text, 1, n - 1)
         IN  IF n <= Len(text) /\ Len(raw) > 0 /\ raw[Len(raw)] = "\r"
             THEN Some(SubSeq(raw, 1, Len(raw) - 1))
             ELSE Some(raw)

\* ----------------------------------------------------------- the inputs
\* File texts.  A front-matter file is cut down to the marker and one
\* character that stands for its metadata block and body: S declares a
\* title and a slug, T a title only, E a title and an empty slug, and ?
\* does not deserialize.
TextPlain == << "-", "-", "B", "\r", "\n", "t" >>
TextEmpty == << >>
TextFmSlug == << "-", "-", "-", "S" >>
TextFmNoSlug == << "-", "-", "-", "T" >>
TextFmEmptySlug == << "-", "-", "-", "E" >>
TextFmBad == << "-", "-", "-", "?" >>

\* Chapter { title, content, slug }
Chapter(title, content, slug) ==
    [title |-> title, content |-> content, slug |-> slug]

\* Matter::<YAML>::parse_with_struct::<Chapter>: None when the front matter
\* does not deserialize into a Chapter, else the data (title and the slug
\* when one is declared; content is not part of the front matter) and the
\* body after the closing delimiter.
ParseWithStruct(text) ==
    CASE text = TextFmSlug ->
           Some([data |-> Chapter(<< "I" >>, None, Some("index")),
                 content |-> << "H" >>])
      [] text = TextFmNoSlug ->
           Some([data |-> Chapter(<< "I" >>, None, None),
                 content |-> << "H" >>])
      [] text = TextFmEmptySlug ->
           Some([data |-> Chapter(<< "I" >>, None, Some("")),
                 content |-> << "H" >>])
      [] OTHER -> None

\* A directory entry: its file stem (None when the name is not UTF-8),
\* whether read_to_string succeeds, and the text read.
Entry(stem, readable, text) ==
    [stem |-> stem, readable |-> readable, text |-> text]

Entries ==
    { Entry(Some("nota"), TRUE, TextPlain),
      Entry(Some("vacio"), TRUE, TextEmpty),
      Entry(Some("cap1"), TRUE, TextFmSlug),
      Entry(Some("cap2"), TRUE, TextFmNoSlug),
      Entry(Some("cap3"), TRUE, TextFmEmptySlug),
      Entry(Some("roto"), TRUE, TextFmBad),
      Entry(Some("dir"), FALSE, TextEmpty),
      Entry(None, TRUE, TextPlain) }

Langs == { "", "en" }

LanguageLists == UNION { [1..n -> Langs] : n \in 0..MaxLangs }

DefaultLanguages == { None, Some("en") }

\* ------------------------------------------------------------ the state
VARIABLES
    pc,               \* where execute is
    languagesArg,     \* the languages argument of execute (an Option)
    default_language, \* the default_language argument of execute (an Option)
    languages,        \* the language list after the default is applied
    li,               \* index of the language the loop is at
    chapters,         \* execute's accumulating chapter list
    scans,            \* per language scanned: the directory and the scan's result
    log,              \* every Ssg::gen call so far, in order
    ret,              \* what execute returned
    failure           \* what made execute stop early

vars == << pc, languagesArg, default_language, languages, li, chapters,
           scans, log, ret, failure >>

RootDir == "./out/book"

\* The per-language Ssg left out: every page goes to the root directory
OutDirRoot(lang) == RootDir

\* Path::new(&format!("./out/book/{lang}")), as the directory it names
OutDir(lang) == IF lang = "" THEN RootDir ELSE RootDir \o "/" \o lang

\* The record of one Ssg::gen call: the directory of the Ssg, the file
\* path, the props of the rendered Homepage component and whether the
\* page was written.  pass is the index of the language whose
\* generate_chapters made the call, 0 for generate_homepage.
Gen(dir, path, chapter, chaps, language, ok, pass) ==
    [dir |-> dir, path |-> path, chapter |-> chapter, chapters |-> chaps,
     language |-> language, ok |-> ok, pass |-> pass]

NFaults == Cardinality({ i \in 1..Len(log) : ~log[i].ok })

RECURSIVE SumLen(_)
SumLen(ss) ==
    IF Len(ss) = 0 THEN 0 ELSE Len(ss[1].entries) + SumLen(Tail(ss))

NEntries == SumLen(scans)

\* What the iterator of read_dir can yield: every listing within the budget
Listings == UNION { [1..n -> Entries] : n \in 0..(MaxEntries - NEntries) }

\* ----------------------------------------------- charpters_from_folder
\* An unreadable entry skipped instead of returned as an error
ReadErrorSkipped == [kind |-> "skip"]

\* fs::read_to_string(..)?: the error is returned
ReadError == [kind |-> "err", cause |-> "read_to_string"]

\* A file without a title line skipped instead of returned as an error
NoTitleSkipped == [kind |-> "skip"]

\* lines().next().ok_or(anyhow!(..))?: the error is returned
NoTitle == [kind |-> "err", cause |-> "titulo"]

\* Front matter that does not deserialize returned as an error
NoParseReturned == [kind |-> "err", cause |-> "parse_with_struct"]

\* let Some(parsed_entity) = result else { ..; continue }
NoParse == [kind |-> "skip"]

\* One iteration of charpters_from_folder's loop, on entry e
ParseEntry(e) ==
    IF ~e.readable THEN ReadError
    ELSE IF ~IsSome(e.stem) THEN [kind |-> "err", cause |-> "to_str"]
    ELSE IF StartsWith(e.text, FrontMatterMarker)
    THEN LET result == ParseWithStruct(e.text)
         IN  IF ~IsSome(result) THEN NoParse
             ELSE LET parsed_entity == Unwrap(result)
                  IN  [kind |-> "push",
                       chapter |->
                         Chapter(parsed_entity.data.title,
                                 Some(parsed_entity.content),
                                 GetOrInsert(parsed_entity.data.slug,
                                             Unwrap(e.stem)))]
    ELSE LET title == FirstLine(e.text)
         IN  IF ~IsSome(title) THEN NoTitle
             ELSE [kind |-> "push",
                   chapter |-> Chapter(Unwrap(title), Some(e.text),
                                       Some(Unwrap(e.stem)))]

\* charpters_from_folder's loop from entry i on, with acc the chapters
\* pushed so far: Ok(chapters), or the first error met; read is the number
\* of entries taken from the iterator
RECURSIVE ScanFrom(_, _, _)
ScanFrom(chapter_folder, i, acc) ==
    IF i > Len(chapter_folder)
    THEN [ok |-> TRUE, chapters |-> acc, cause |-> "none",
          read |-> Len(chapter_folder)]
    ELSE LET r == ParseEntry(chapter_folder[i])
         IN  IF r.kind = "err"
             THEN [ok |-> FALSE, chapters |-> << >>, cause |-> r.cause,
                   read |-> i]
             ELSE IF r.kind = "skip"
             THEN ScanFrom(chapter_folder, i + 1, acc)
             ELSE ScanFrom(chapter_folder, i + 1, Append(acc, r.chapter))

charpters_from_folder(chapter_folder) == ScanFrom(chapter_folder, 1, << >>)

\* --------------------------------------------------- generate_chapters
RECURSIVE GenFrom(_, _, _, _, _, _)

\* The failed write ignored and the loop going on to the next chapter
WriteFailedContinue(list, i, failAt, acc, language, pass) ==
    GenFrom(list, i + 1, failAt, acc, language, pass)

\* A page write failed: `.await?` ends generate_chapters with the error
WriteFailed(list, i, failAt, acc, language, pass) ==
    [res |-> "Err", calls |-> acc]

\* generate_chapters's loop from chapter i on, with acc the Ssg::gen calls
\* made so far; the write of chapter failAt fails (0: none does)
GenFrom(list, i, failAt, acc, language, pass) ==
    IF i > Len(list) THEN [res |-> "Ok", calls |-> acc]
    ELSE IF ~IsSome(list[i].slug) THEN [res |-> "panic", calls |-> acc]
    ELSE LET path == Unwrap(list[i].slug) \o ".html"
             call == Gen(OutDir(language), path, Some(list[i]), list,
                         language, i # failAt, pass)
         IN  IF i = failAt
             THEN WriteFailed(list, i, failAt, Append(acc, call), language, pass)
             ELSE GenFrom(list, i + 1, failAt, Append(acc, call), language, pass)

generate_chapters(list, language, failAt, pass) ==
    GenFrom(list, 1, failAt, << >>, language, pass)

\* ------------------------------------------------------------- execute
Init ==
    /\ pc = "start"
    /\ languagesArg \in { None } \cup { Some(l) : l \in LanguageLists }
    /\ default_language \in DefaultLanguages
    /\ languages = << >>
    /\ li = 1
    /\ chapters = << >>
    /\ scans = << >>
    /\ log = << >>
    /\ ret = "none"
    /\ failure = "none"

\* The working list reset for each language
AppendedReset(acc, new) == new

\* chapters.append(&mut ...): the accumulated list after the append
Appended(acc, new) == acc \o new

\* The loop's inner `ssg` used after the loop: the last language's directory
HomepageSsgShadowed ==
    IF Len(languages) > 0 THEN OutDir(languages[Len(languages)]) ELSE RootDir

\* The Ssg generate_homepage is given: the one made before the loop
HomepageSsg == RootDir

\* execute returns an error
Fail(cause) ==
    /\ pc' = "err"
    /\ ret' = "Err"
    /\ failure' = cause

\* execute panics
Panic(cause) ==
    /\ pc' = "panic"
    /\ ret' = "panic"
    /\ failure' = cause

\* execute, up to the language loop
Setup ==
    /\ pc = "start"
    /\ languages' = Unwrap(OptionOr(languagesArg, Some(<< "" >>)))
    /\ \/ /\ pc' = "loop"
          /\ UNCHANGED << ret, failure >>
       \/ Panic("create_dir_all")
       \/ Fail("style.css")
    /\ UNCHANGED << languagesArg, default_language, li, chapters, scans, log >>

\* The head of a loop iteration when read_dir fails
ReadDirFails ==
    /\ pc = "loop"
    /\ li <= Len(languages)
    /\ Fail("read_dir")
    /\ UNCHANGED << languagesArg, default_language, languages, li, chapters,
                    scans, log >>

\* A loop iteration up to the call of generate_chapters: read_dir gives an
\* iterator, charpters_from_folder scans it, its chapters are appended and
\* the language's output directory is made.  chapter_folder is the entries
\* the iterator yields until the scan ends.
ScanLanguage ==
    /\ pc = "loop"
    /\ li <= Len(languages)
    /\ \E chapter_folder \in Listings :
         LET scanned == charpters_from_folder(chapter_folder)
         IN  /\ scanned.read = Len(chapter_folder)
             /\ scans' = Append(scans, [entries |-> chapter_folder,
                                        ok |-> scanned.ok,
                                        result |-> scanned.chapters])
             /\ IF scanned.ok
                THEN /\ chapters' = Appended(chapters, scanned.chapters)
                     /\ \/ /\ pc' = "gen"
                           /\ UNCHANGED << ret, failure >>
                        \/ Panic("create_dir_all")
                ELSE /\ Fail(scanned.cause)
                     /\ UNCHANGED chapters
    /\ UNCHANGED << languagesArg, default_language, languages, li, log >>

\* The Result of generate_chapters returned by execute with `?`
DroppedPropagated(res) ==
    IF res = "Err"
    THEN /\ Fail("generate_chapters")
         /\ UNCHANGED li
    ELSE /\ pc' = "loop"
         /\ li' = li + 1
         /\ UNCHANGED << ret, failure >>

\* _ = generate_chapters(..).await: the Result is dropped and the loop goes
\* on to the next language
Dropped(res) ==
    /\ pc' = "loop"
    /\ li' = li + 1
    /\ UNCHANGED << ret, failure >>

\* The rest of the loop iteration: generate_chapters on a clone of the
\* accumulated list
GenerateChapters ==
    /\ pc = "gen"
    /\ \E failAt \in 0..Len(chapters) :
         LET r == generate_chapters(chapters, languages[li], failAt, li)
         IN  /\ failAt > 0 => NFaults < MaxFaults
             /\ log' = log \o r.calls
             /\ IF r.res = "panic"
                THEN /\ Panic("unwrap")
                     /\ UNCHANGED li
                ELSE Dropped(r.res)
    /\ UNCHANGED << languagesArg, default_language, languages, chapters, scans >>

\* After the loop: generate_homepage on the root Ssg, then Ok(())
Homepage ==
    /\ pc = "loop"
    /\ li > Len(languages)
    /\ \E ok \in BOOLEAN :
         /\ ok \/ NFaults < MaxFaults
         /\ log' = Append(log, Gen(HomepageSsg, "index.html", None, chapters,
                                   UnwrapOr(default_language, ""), ok, 0))
    /\ pc' = "done"
    /\ ret' = "Ok"
    /\ UNCHANGED << languagesArg, default_language, languages, li, chapters,
                    scans, failure >>

Next ==
    \/ Setup
    \/ ReadDirFails
    \/ ScanLanguage
    \/ GenerateChapters
    \/ Homepage

Spec == Init /\ [][Next]_vars

\* The same behaviours, as the specification of the statements about
\* charpters_from_folder
ScanSpec == Init /\ [][Next]_vars

\* ------------------------------------------------------------- claims
\* Helpers of the statements below (not part of the program).

\* The scan results of languages 1..k, concatenated in language order
RECURSIVE ScansUpTo(_)
ScansUpTo(k) == IF k = 0 THEN << >> ELSE ScansUpTo(k - 1) \o scans[k].result

\* The Ssg::gen calls of the chapter-page pass of the k-th language
PassCalls(k) == SelectSeq(log, LAMBDA r : r.pass = k)

PassFailed(k) == \E i \in 1..Len(log) : log[i].pass = k /\ ~log[i].ok

HomeCalls == { i \in 1..Len(log) : log[i].chapter = None }

\* The files on disk: directory and name of every page written
Files == { << log[i].dir, log[i].path >> : i \in { j \in 1..Len(log) : log[j].ok } }

\* out/book/L
LangDir(lang) == "./out/book" \o (IF lang = "" THEN "" ELSE "/" \o lang)

BeginsWithMarker(text) ==
    Len(text) >= 3 /\ text[1] = "-" /\ text[2] = "-" /\ text[3] = "-"

\* A readable entry that begins with --- and fails deserialization
Malformed(e) ==
    e.readable /\ BeginsWithMarker(e.text) /\ ParseWithStruct(e.text) = None

\* A readable entry with no title line: the empty file
Untitled(e) == e.readable /\ IsSome(e.stem) /\ Len(e.text) = 0

Unreadable(e) == ~e.readable

WellFormed(entries) == SelectSeq(entries, LAMBDA e : ~Malformed(e))

\* The entries of a directory that yield a chapter, in enumeration order
Yielding(entries) ==
    SelectSeq(entries, LAMBDA e : /\ e.readable
                                  /\ IsSome(e.stem)
                                  /\ ~Malformed(e)
                                  /\ ~Untitled(e))

\* A scan that returned Ok has one chapter per entry that yields one, in
\* enumeration order, and P(c, e) holds of every chapter c and the entry e
\* it comes from
ForAllSourced(P(_, _)) ==
    \A k \in 1..Len(scans) :
      scans[k].ok =>
        LET ys == Yielding(scans[k].entries)
            cs == scans[k].result
        IN  /\ Len(cs) = Len(ys)
            /\ \A j \in 1..Len(cs) : P(cs[j], ys[j])

\* The slug the front matter of e declares, if any
DeclaredSlug(e) ==
    IF BeginsWithMarker(e.text) /\ ParseWithStruct(e.text) # None
    THEN ParseWithStruct(e.text)[1].data.slug
    ELSE None

\* P(c) holds of every chapter c that reached generate_chapters or
\* generate_homepage
ForAllGenerated(P(_)) ==
    \A i \in 1..Len(log) :
      /\ \A j \in 1..Len(log[i].chapters) : P(log[i].chapters[j])
      /\ \A j \in 1..Len(log[i].chapter) : P(log[i].chapter[j])

\* t is the first line of text
IsFirstLineOf(t, text) ==
    /\ \A i \in 1..Len(t) : t[i] # "\n"
    /\ Len(text) >= Len(t)
    /\ \A i \in 1..Len(t) : text[i] = t[i]
    /\ \/ /\ Len(text) = Len(t)
       \/ /\ Len(text) > Len(t)
          /\ text[Len(t) + 1] = "\n"
          /\ (Len(t) = 0 \/ t[Len(t)] # "\r")
       \/ /\ Len(text) > Len(t) + 1
          /\ text[Len(t) + 1] = "\r"
          /\ text[Len(t) + 2] = "\n"

\* --------------------------------------------------------------------
\* C1: the chapter list handed to the chapter-page pass of the k-th
\* language, and given to every page it renders, is the concatenation in
\* language order of the scan results of languages 1..k.
C1_AccumulatedAcrossLanguages ==
    /\ pc = "gen" => /\ Len(scans) = li
                     /\ chapters = ScansUpTo(li)
    /\ \A i \in 1..Len(log) :
         log[i].pass > 0 =>
           /\ log[i].pass <= Len(scans)
           /\ log[i].chapters = ScansUpTo(log[i].pass)

\* The second language's pass ran with chapters of both languages.
C1_Witness ==
    /\ Len(scans) = 2
    /\ Len(scans[1].result) > 0
    /\ Len(scans[2].result) > 0
    /\ \E i \in 1..Len(log) : log[i].pass = 2

\* --------------------------------------------------------------------
\* C2 as stated: a scan failure (the directory cannot be opened, an entry
\* cannot be read as text) does not stop the build.
C2_ScanFailureIsolated ==
    failure \in {"read_dir", "read_to_string"} => pc # "err"

\* C2 amended: a scan failure is fatal.  A scan ends with the error at an
\* unreadable entry; execute returns the error at once, with no page of
\* the failing language or of a later one generated and no homepage; only
\* the calls of earlier languages were made.
C2_ScanFailureFatal ==
    /\ \A k \in 1..Len(scans) : \A i \in 1..Len(scans[k].entries) :
         Unreadable(scans[k].entries[i]) =>
           /\ k = Len(scans)
           /\ i = Len(scans[k].entries)
           /\ ~scans[k].ok
           /\ failure = "read_to_string"
    /\ failure \in {"read_dir", "read_to_string"} =>
         /\ pc = "err"
         /\ ret = "Err"
         /\ li <= Len(languages)
         /\ Len(scans) = (IF failure = "read_dir" THEN li - 1 ELSE li)
         /\ chapters = ScansUpTo(li - 1)
         /\ \A i \in 1..Len(log) : log[i].pass \in 1..(li - 1)

\* The first language's scan fails on an unreadable entry, after another
\* entry was parsed, and a second language is left unprocessed.
C2_Witness ==
    /\ failure = "read_to_string"
    /\ li = 1
    /\ Len(languages) = 2
    /\ Len(scans[1].entries) = 2
    /\ Unreadable(scans[1].entries[2])
    /\ ~Malformed(scans[1].entries[1])

AllSucceeded == pc = "done" /\ NFaults = 0

\* One page per chapter of the list of each language's pass
ChapterPagesWritten ==
    \A k \in 1..Len(languages) :
      LET list == ScansUpTo(k)
      IN  \A j \in 1..Len(list) :
            << LangDir(languages[k]), list[j].slug[1] \o ".html" >> \in Files

SlugNonEmpty(c) == IsSome(c.slug) /\ c.slug[1] # ""

C5_SlugNonEmpty == ForAllGenerated(SlugNonEmpty)

\* C5 amended: every chapter that reaches page generation has a present
\* slug, which is the slug the front matter declares, kept unchanged (even
\* when it is the empty string), and otherwise the file's stem; it is
\* empty only when the front matter declares an empty slug.
SlugPresent(c) == IsSome(c.slug)

SlugDeclaredOrStem(c, e) ==
    /\ IsSome(c.slug)
    /\ LET declared == DeclaredSlug(e)
       IN  /\ declared # None => c.slug = declared
           /\ declared = None => c.slug = e.stem
           /\ c.slug = Some("") => declared = Some("")

C5_SlugDeclaredOrStem ==
    /\ ForAllSourced(SlugDeclaredOrStem)
    /\ ForAllGenerated(SlugPresent)
    /\ \A i \in 1..Len(log) :
         log[i].chapter # None => log[i].path = log[i].chapter[1].slug[1] \o ".html"
    /\ failure # "unwrap"

\* A page generated for a chapter with a declared slug and one for a
\* chapter whose slug is the stem of its file.
C5_Witness ==
    /\ \E i \in 1..Len(log) : log[i].chapter # None /\ log[i].path = "index.html"
    /\ \E i \in 1..Len(log) : log[i].chapter # None /\ log[i].path = "cap2.html"

\* --------------------------------------------------------------------
\* C6: a failure while generating the chapter pages of language k is not
\* propagated: execute goes on to language k + 1 with the accumulated
\* list intact, never returns an error because of it, and ends with the
\* homepage generation attempted and Ok returned.
C6_GenerationFailureCaught ==
    \A k \in 1..Len(languages) :
      PassFailed(k) =>
        /\ li > k
        /\ pc = "err" => failure \in {"read_dir", "read_to_string", "to_str", "titulo"}
        /\ chapters = ScansUpTo(Len(scans))
        /\ Len(scans) >= k
        /\ \A i \in 1..Len(log) :
             log[i].pass > k => log[i].chapters = ScansUpTo(log[i].pass)
        /\ pc = "done" =>
             /\ ret = "Ok"
             /\ Len(scans) = Len(languages)
             /\ HomeCalls # {}
             /\ \A i \in HomeCalls : log[i].chapters = ScansUpTo(Len(languages))

\* The first language's pass failed, the second language's pass ran with
\* both languages' chapters and the build ended Ok.
C6_Witness ==
    /\ pc = "done"
    /\ ret = "Ok"
    /\ Len(languages) = 2
    /\ PassFailed(1)
    /\ Len(scans[1].result) = 1
    /\ Len(PassCalls(2)) = 2

\* --------------------------------------------------------------------
\* C7: the scan of a directory of N readable entries, M of them malformed
\* front matter and the others well formed, returns exactly N - M
\* chapters, one per well-formed file and in enumeration order; a
\* malformed file does not end the scan.
C7_MalformedSkipped ==
    \A k \in 1..Len(scans) :
      LET es == scans[k].entries
          cs == scans[k].result
          ws == WellFormed(es)
      IN  (\A i \in 1..Len(es) :
             es[i].readable /\ IsSome(es[i].stem) /\ ~Untitled(es[i])) =>
            /\ scans[k].ok
            /\ Len(cs) = Len(es) - (Len(es) - Len(ws))
            /\ \A j \in 1..Len(cs) :
                 /\ cs[j].content =
                      Some(IF BeginsWithMarker(ws[j].text)
                           THEN ParseWithStruct(ws[j].text)[1].content
                           ELSE ws[j].text)
                 /\ cs[j].slug \in {ws[j].stem, DeclaredSlug(ws[j])}
            /\ k = li => pc \in {"gen", "panic"}

\* A directory of two entries, the first malformed, scanned to the end in
\* a build that completed.
C7_Witness ==
    /\ Len(scans) > 0
    /\ Len(scans[1].entries) = 2
    /\ Malformed(scans[1].entries[1])
    /\ Len(scans[1].result) = 1
    /\ pc = "done"

\* --------------------------------------------------------------------
\* C8: the top-level homepage is generated exactly once, after the last
\* language's pass, with no chapter, the final accumulated list and the
\* default language or "", and written to index.html of out/book.
C8_HomepageOnceAtRoot ==
    /\ pc # "done" => HomeCalls = {}
    /\ pc = "done" =>
         /\ HomeCalls = { Len(log) }
         /\ li = Len(languages) + 1
         /\ Len(scans) = Len(languages)
         /\ log[Len(log)].dir = "./out/book"
         /\ log[Len(log)].path = "index.html"
         /\ log[Len(log)].chapters = ScansUpTo(Len(languages))
         /\ log[Len(log)].chapters = chapters
         /\ log[Len(log)].language =
              (IF default_language = None THEN "" ELSE default_language[1])

\* A build of two languages, the last one named, with no default
\* language, completed with chapters.
C8_Witness ==
    /\ pc = "done"
    /\ Len(languages) = 2
    /\ languages[2] = "en"
    /\ default_language = None
    /\ Len(chapters) = 2
    /\ log[Len(log)].ok

\* --------------------------------------------------------------------
\* C9: a file whose text does not begin with --- yields a chapter whose
\* title is the first line of the text, whose slug is the file's stem and
\* whose content is the whole text; a chapter of a file that begins with
\* --- comes from the front matter.
ParsedAsRouted(c, e) ==
    IF BeginsWithMarker(e.text)
    THEN LET parsed == ParseWithStruct(e.text)[1]
         IN  /\ c.title = parsed.data.title
             /\ c.content = Some(parsed.content)
    ELSE /\ IsFirstLineOf(c.title, e.text)
         /\ c.slug = e.stem
         /\ c.content = Some(e.text)

C9_PlainTextPath ==
    /\ ForAllSourced(ParsedAsRouted)

\* A plain-text file that begins with two dashes parsed into a chapter.
C9_Witness ==
    /\ Len(scans) = 1
    /\ scans[1].ok
    /\ Len(scans[1].entries) = 1
    /\ scans[1].entries[1].text = << "-", "-", "B", "\r", "\n", "t" >>
    /\ scans[1].result[1].title = << "-", "-", "B" >>

\* --------------------------------------------------------------------
\* C10: a chapter-page pass writes pages in chapter-list order, each
\* rendered against the same full list, and stops at the first write
\* that fails: the calls of the pass are those of a prefix of the list,
\* only the last of them can have failed, and a pass without a failed
\* write covers the whole list.
C10_PassStopsAtFirstFailure ==
    \A k \in 1..Len(scans) :
      LET calls == PassCalls(k)
          list == ScansUpTo(k)
      IN  /\ Len(calls) <= Len(list)
          /\ \A j \in 1..Len(calls) :
               /\ calls[j].chapter = Some(list[j])
               /\ calls[j].chapters = list
               /\ calls[j].language = languages[k]
               /\ calls[j].path = list[j].slug[1] \o ".html"
               /\ j < Len(calls) => calls[j].ok
          /\ li <= k => Len(calls) = 0
          /\ li > k =>
               \/ Len(calls) = Len(list)
               \/ ~calls[Len(calls)].ok

\* A pass over two chapters whose first write failed: the second
\* chapter's page was not written.
C10_Witness ==
    \E k \in 1..Len(scans) :
      /\ li > k
      /\ Len(ScansUpTo(k)) = 2
      /\ Len(PassCalls(k)) = 1
      /\ ~PassCalls(k)[1].ok

=============================================================================
